---------------------------- MODULE Spec2Model ----------------------------
(***************************************************************************)
(* A model of src/markitdown_utility.py: the Source Router                 *)
(* (process_input), the Chunker (split_text_into_chunks, i.e. langchain's  *)
(* RecursiveCharacterTextSplitter with its default separators), the        *)
(* Completion Client (process_with_llm) and the Orchestrator (main).       *)
(*                                                                         *)
(* Three specifications share the variables:                               *)
(*   Spec         one run of main(), step by step;                         *)
(*   SpecRouter   process_input applied to sample input references;        *)
(*   SpecChunker  split_text_into_chunks applied to short strings.         *)
(*                                                                         *)
(* Representation of Python values.                                        *)
(*   - An optional value (str or None) is a record [some, val].            *)
(*   - In main(), a str is a sequence of segments [kind, src, len, blank]: *)
(*     a run of len >= 1 characters of one origin.  The empty string is    *)
(*     <<>>, + is \o, len() is the sum of the segments' len.               *)
(*   - An input reference is a sequence of path tokens; "/" and "." are    *)
(*     tokens of their own and no other token contains either.             *)
(*   - In the chunker, a str is a sequence of one-character strings.       *)
(* The verbose flag only adds progress messages and is left out.           *)
(***************************************************************************)
EXTENDS Integers, Sequences, FiniteSets, TLC

VARIABLES
    pc,               \* position of main(): see PcValues
    inputs,           \* args.inputs
    query,            \* args.query   (optional str)
    output,           \* args.output  (optional str)
    idx,              \* 1-based index of the next input of the for loop (line 312)
    all_content,      \* list of extracted texts (line 310)
    combined_content, \* line 326
    chunks,           \* line 334
    results,          \* line 339
    final_result,     \* optional: unbound until assigned (lines 352, 357, 360)
    console,          \* what was printed, in order
    file,             \* optional: content of the output file
    exit_status,      \* optional: the status the process exited with
    extracted,        \* history: one record per process_input call
    calls,            \* history: one record per client.chat.completions.create call
    chunker_calls,    \* history: number of split_text_into_chunks calls
    r_in,             \* SpecRouter: the input reference and its environment
    r_out,            \* SpecRouter: the result of process_input
    c_in,             \* SpecChunker: text, chunk_size, chunk_overlap
    c_out             \* SpecChunker: the result of split_text_into_chunks

vars == <<pc, inputs, query, output, idx, all_content, combined_content, chunks,
          results, final_result, console, file, exit_status, extracted, calls,
          chunker_calls, r_in, r_out, c_in, c_out>>

mainVars == <<pc, inputs, query, output, idx, all_content, combined_content, chunks,
              results, final_result, console, file, exit_status, extracted, calls,
              chunker_calls>>

-----------------------------------------------------------------------------
(* Bounds of the model *)

MaxInputs == 2

MaxChunks == 3

MaxTextLen == 4

MaxChunkSize == 3

-----------------------------------------------------------------------------
(* Python values *)

None == [some |-> FALSE, val |-> <<>>]

Some(v) == [some |-> TRUE, val |-> v]

\* bool(x) of an optional str: None and "" are falsy
Truthy(x) == x.some /\ x.val # <<>>

Seg(kind, src, len, blank) == <<[kind |-> kind, src |-> src, len |-> len, blank |-> blank]>>

RECURSIVE StrLen(_)
StrLen(t) == IF t = <<>> THEN 0 ELSE Head(t).len + StrLen(Tail(t))

\* str.strip() = "" : every character is whitespace
IsBlank(t) == \A k \in 1..Len(t) : t[k].blank

\* sep.join(list)
RECURSIVE Join(_, _)
Join(sep, list) ==
    IF list = <<>> THEN <<>>
    ELSE IF Len(list) = 1 THEN list[1]
    ELSE list[1] \o sep \o Join(sep, Tail(list))

-----------------------------------------------------------------------------
(* Console output *)

Msg(s) == [kind |-> "msg", msg |-> s, val |-> <<>>]

\* print(final_result)
Res(t) == [kind |-> "result", msg |-> "", val |-> t]

NL1 == Seg("nl", 0, 1, TRUE)

Eq80 == Seg("=", 0, 80, FALSE)

\* print("\n" + "=" * 80 + "\n")   (line 374)
SepTop == [kind |-> "sep", msg |-> "", val |-> NL1 \o Eq80 \o NL1]

\* print("\n" + "=" * 80)          (line 376)
SepBottom == [kind |-> "sep", msg |-> "", val |-> NL1 \o Eq80]

-----------------------------------------------------------------------------
(* Source Router: process_input, lines 202-238 *)

Extractors == {"url", "pdf", "docx", "csv", "text"}

HttpPrefix == <<"http:", "/", "/">>

HttpsPrefix == <<"https:", "/", "/">>

\* str.startswith(prefix)
StartsWith(s, prefix) == Len(s) >= Len(prefix) /\ SubSeq(s, 1, Len(prefix)) = prefix

\* str.lower() of one token
LowerTok(t) ==
    CASE t = "PDF"   -> "pdf"
      [] t = "Pdf"   -> "pdf"
      [] t = "DOCX"  -> "docx"
      [] t = "CSV"   -> "csv"
      [] t = "TXT"   -> "txt"
      [] t = "HTML"  -> "html"
      [] t = "HTTP:" -> "http:"
      [] OTHER       -> t

Lower(s) == [k \in 1..Len(s) |-> LowerTok(s[k])]

\* str.rfind(tok), 1-based: 0 when absent (Python's -1)
RFind(s, tok) ==
    LET hits == {k \in 1..Len(s) : s[k] = tok}
    IN  IF hits = {} THEN 0 ELSE CHOOSE k \in hits : \A j \in hits : j <= k

\* os.path.splitext(p)[1] (posixpath: genericpath._splitext with sep "/", extsep "."):
\* the last dot after the last separator starts the extension, unless only dots
\* precede it in the file name.
splitext_ext(p) ==
    LET sepIndex == RFind(p, "/")
        dotIndex == RFind(p, ".")
    IN  IF dotIndex > sepIndex
           /\ \E filenameIndex \in (sepIndex + 1)..(dotIndex - 1) : p[filenameIndex] # "."
        THEN SubSeq(p, dotIndex, Len(p))
        ELSE <<>>

TextExtensions == {<<".", "txt">>, <<".", "md">>, <<".", "json">>, <<".", "html">>, <<".", "htm">>}

\* Mutant: the extension is compared without .lower()
process_input_case_sensitive(input_source, exists, extract) ==
    IF StartsWith(input_source, HttpPrefix) \/ StartsWith(input_source, HttpsPrefix)
    THEN [route |-> "url", fs_checked |-> FALSE, warned |-> FALSE,
          prints |-> <<Msg("Processing URL")>>, result |-> extract["url"]]
    ELSE IF ~exists
    THEN [route |-> "none", fs_checked |-> TRUE, warned |-> FALSE,
          prints |-> <<Msg("Error: File not found")>>, result |-> None]
    ELSE LET file_extension == splitext_ext(input_source)
             route == IF file_extension = <<".", "pdf">> THEN "pdf"
                      ELSE IF file_extension = <<".", "docx">> THEN "docx"
                      ELSE IF file_extension = <<".", "csv">> THEN "csv"
                      ELSE "text"
             warned == route = "text" /\ file_extension \notin TextExtensions
         IN  [route |-> route, fs_checked |-> TRUE, warned |-> warned,
              prints |-> <<Msg("Processing file")>>
                         \o (IF warned THEN <<Msg("Warning: Unrecognized file extension")>> ELSE <<>>),
              result |-> extract[route]]

\* process_input(input_source).  exists is os.path.exists(input_source) and
\* extract[e] is what extractor e returns for this input (None on a caught error).
\* route names the extractor invoked ("none": no extractor).
process_input(input_source, exists, extract) ==
    IF StartsWith(input_source, HttpPrefix) \/ StartsWith(input_source, HttpsPrefix)
    THEN [route |-> "url", fs_checked |-> FALSE, warned |-> FALSE,
          prints |-> <<Msg("Processing URL")>>, result |-> extract["url"]]
    ELSE IF ~exists
    THEN [route |-> "none", fs_checked |-> TRUE, warned |-> FALSE,
          prints |-> <<Msg("Error: File not found")>>, result |-> None]
    ELSE LET file_extension == Lower(splitext_ext(input_source))
             route == IF file_extension = <<".", "pdf">> THEN "pdf"
                      ELSE IF file_extension = <<".", "docx">> THEN "docx"
                      ELSE IF file_extension = <<".", "csv">> THEN "csv"
                      ELSE "text"
             warned == route = "text" /\ file_extension \notin TextExtensions
         IN  [route |-> route, fs_checked |-> TRUE, warned |-> warned,
              prints |-> <<Msg("Processing file")>>
                         \o (IF warned THEN <<Msg("Warning: Unrecognized file extension")>> ELSE <<>>),
              result |-> extract[route]]


-----------------------------------------------------------------------------
(* SpecRouter: process_input applied to sample input references.  A reference *)
(* is built as prefix \o stem \o suffix; the environment is whether the path  *)
(* exists and which extractor (if any) fails on it.                           *)

RouterPrefixes ==
    { <<>>, HttpPrefix, HttpsPrefix, <<"HTTP:", "/", "/">>, <<"http:", "/">>,
      <<"d", ".", "pdf", "/">>, <<"d", "/">> }

RouterStems == { <<>>, <<"a">>, <<".">>, <<"a", ".", "csv">> }

ExtTokens == {"pdf", "PDF", "Pdf", "docx", "DOCX", "csv", "CSV", "txt", "TXT",
              "md", "json", "html", "HTML", "htm", "xyz"}

RouterSuffixes == { <<>>, <<".">> } \cup { <<".", e>> : e \in ExtTokens }

\* What each extractor returns for the input: its own text, or None when it fails
ExtractEnv(failing) ==
    [e \in Extractors |-> IF e = failing THEN None ELSE Some(Seg("doc", e, 1, FALSE))]

RouterInit ==
    /\ r_in \in [prefix : RouterPrefixes, stem : RouterStems, suffix : RouterSuffixes,
                 exists : BOOLEAN, failing : Extractors \cup {"nobody"}]
    /\ r_out = None
    /\ c_in = None /\ c_out = None
    /\ pc = "idle" /\ inputs = <<>> /\ query = None /\ output = None /\ idx = 0
    /\ all_content = <<>> /\ combined_content = <<>> /\ chunks = <<>> /\ results = <<>>
    /\ final_result = None /\ console = <<>> /\ file = None /\ exit_status = None
    /\ extracted = <<>> /\ calls = <<>> /\ chunker_calls = 0

RouterInput == r_in.prefix \o r_in.stem \o r_in.suffix

RouterApply ==
    /\ r_out = None
    /\ r_out' = Some(process_input(RouterInput, r_in.exists, ExtractEnv(r_in.failing)))
    /\ UNCHANGED <<mainVars, r_in, c_in, c_out>>

RouterNext == RouterApply

SpecRouter == RouterInit /\ [][RouterNext]_vars

\* The reference starts with a URL scheme (by construction of the sample)
RouterIsUrl == r_in.prefix \in {HttpPrefix, HttpsPrefix}

\* The kind of the file's extension, read off the way the sample was built and
\* without regard to case: the file name is stem \o suffix, and a name made of
\* dots only before the last dot has no extension.
RouterExtKind ==
    LET named == \E k \in 1..Len(r_in.stem) : r_in.stem[k] # "."
        e == IF Len(r_in.suffix) = 2 /\ named THEN r_in.suffix[2]
             ELSE IF r_in.suffix = <<>> /\ r_in.stem = <<"a", ".", "csv">> THEN "csv"
             ELSE "none"
    IN  IF e \in {"pdf", "PDF", "Pdf"} THEN "pdf"
        ELSE IF e \in {"docx", "DOCX"} THEN "docx"
        ELSE IF e \in {"csv", "CSV"} THEN "csv"
        ELSE IF e \in {"txt", "TXT", "md", "json", "html", "HTML", "htm"} THEN "text"
        ELSE "unrecognized"

\* C8: process_input routes a reference starting with http:// or https:// to the
\* URL extractor without a filesystem check; otherwise a path that does not exist
\* gives the "not found" failure and no extractor runs; otherwise the extractor is
\* chosen by the extension regardless of case (.pdf, .docx, .csv to their
\* extractors, everything else to the plain-text extractor, with a warning exactly
\* when the extension is not a recognized one).  The result is the result of the
\* one extractor invoked.
C8_RouterDispatch ==
    r_out.some =>
        LET o == r_out.val
            env == ExtractEnv(r_in.failing)
        IN  IF RouterIsUrl
            THEN o.route = "url" /\ ~o.fs_checked /\ ~o.warned /\ o.result = env["url"]
            ELSE IF ~r_in.exists
            THEN o.route = "none" /\ o.result = None
                 /\ o.prints = <<Msg("Error: File not found")>>
            ELSE /\ o.fs_checked
                 /\ o.route = (IF RouterExtKind = "unrecognized" THEN "text" ELSE RouterExtKind)
                 /\ o.warned = (RouterExtKind = "unrecognized")
                 /\ o.route \in Extractors
                 /\ o.result = env[o.route]

\* An existing file with an upper-case extension was routed by it
C8_Witness ==
    /\ r_out.some /\ r_in.exists /\ ~RouterIsUrl
    /\ r_in.suffix = <<".", "PDF">> /\ r_in.stem = <<"a">>
    /\ r_out.val.route = "pdf" /\ r_out.val.result.some

-----------------------------------------------------------------------------
(* Completion Client: process_with_llm, lines 260-290 *)

DefaultInstruction == <<"Please summarize the following content concisely:">>

ReduceInstruction ==
    <<"Combine the following summaries into a coherent single summary, removing redundancies:">>

\* The text the backend returns to the k-th request
OutText(k) == Seg("out", k, 1, FALSE)

\* Lines 272-275: the prompt is the default instruction and the content, or the
\* query, the "Content:" label and the content
Prompt(content, q) ==
    IF ~Truthy(q)
    THEN [instruction |-> DefaultInstruction, label |-> "", content |-> content]
    ELSE [instruction |-> q.val, label |-> "Content:", content |-> content]

\* Mutant: a backend error is swallowed and an empty text returned
process_with_llm_swallow(content, q, ok, k) ==
    [prompt |-> Prompt(content, q), ok |-> ok, exited |-> FALSE,
     status |-> 0, value |-> IF ok THEN OutText(k) ELSE <<>>]

\* process_with_llm(content, query) as the k-th request of the run; ok is whether
\* the backend answers.  On an error the function prints it and calls sys.exit(1).
process_with_llm(content, q, ok, k) ==
    [prompt |-> Prompt(content, q), ok |-> ok, exited |-> ~ok,
     status |-> IF ok THEN 0 ELSE 1, value |-> IF ok THEN OutText(k) ELSE <<>>]

\* The record kept of a request
CallRecord(kind, r) ==
    [kind |-> kind, instruction |-> r.prompt.instruction, label |-> r.prompt.label,
     content |-> r.prompt.content, ok |-> r.ok]

-----------------------------------------------------------------------------
(* Chunker as main() sees it: split_text_into_chunks(combined_content) with the *)
(* default chunk_size and chunk_overlap (line 334).  The splitter strips each   *)
(* chunk and drops the empty ones, so a blank text gives no chunk; a text with  *)
(* a non-blank character gives at least one.  How many is left open.            *)

Chunk(j) == Seg("chunk", j, 1, FALSE)

ChunkLists(text) ==
    IF IsBlank(text) THEN { <<>> }
    ELSE { [j \in 1..n |-> Chunk(j)] : n \in 1..MaxChunks }

-----------------------------------------------------------------------------
(* Orchestrator: main, lines 292-376 *)

SizeLimit == 4000

NL2 == Seg("nl", 0, 2, TRUE)

Dashes30 == Seg("-", 0, 30, FALSE)

BannerText == Seg(" DOCUMENT SEPARATOR ", 0, 20, FALSE)

\* Mutant: the separator prefix is left out of the corpus
CombineNoBanner(contents) == Join(NL2, contents)

\* Line 326.  The method call binds tighter than +: the banner is prepended once
\* and the documents are joined by "\n\n" alone.
Combine(contents) == NL2 \o Dashes30 \o BannerText \o Dashes30 \o Join(NL2, contents)

\* Mutant: >= instead of >
NeedsChunkingGe(text) == StrLen(text) >= SizeLimit

\* Line 329
NeedsChunking(text) == StrLen(text) > SizeLimit

\* Mutant: only None is skipped (if content is not None)
KeepContentNotNone(content) == content.some

\* Line 315: if content:
KeepContent(content) == Truthy(content)

\* Mutant: a skipped input leaves an empty placeholder in the list
CollectContentPlaceholder(contents, content) ==
    IF KeepContent(content) THEN Append(contents, content.val) ELSE Append(contents, <<>>)

\* Lines 315-318: the content is appended when it is truthy
CollectContent(contents, content) ==
    IF KeepContent(content) THEN Append(contents, content.val) ELSE contents

\* Mutant: a single result is sent to the reduce request too
NeedsReduceFromOne(rs) == Len(rs) >= 1

\* Line 347
NeedsReduce(rs) == Len(rs) > 1

\* The texts an extractor may return for the i-th input, None when it fails.
\* The corpus of one document of n characters has 82 + n characters.
DocLens == {1, 3915, 3918, 3919}

Outcomes(i) ==
    {None, Some(<<>>)}
    \cup { Some(Seg("doc", i, n, FALSE)) : n \in DocLens }
    \cup { Some(Seg("doc", i, 4001, TRUE)) }

SampleInputs == { HttpsPrefix \o <<"a">>, <<"a", ".", "pdf">> }

\* args.query: absent, the empty string, or a query
Queries == {None, Some(<<>>), Some(<<"Q">>)}

\* args.output: absent or a path
Outputs == {None, Some(<<"out.txt">>)}

\* What writing the output file may do: succeed, fail in open(), fail in write()
WriteOutcomes == {"ok", "open_fails", "write_fails"}

Init ==
    /\ pc = "collect"
    /\ inputs \in UNION { [1..n -> SampleInputs] : n \in 1..MaxInputs }
    /\ query \in Queries
    /\ output \in Outputs
    /\ idx = 1
    /\ all_content = <<>>
    /\ combined_content = <<>>
    /\ chunks = <<>>
    /\ results = <<>>
    /\ final_result = None
    /\ console = <<>>
    /\ file = None
    /\ exit_status = None
    /\ extracted = <<>>
    /\ calls = <<>>
    /\ chunker_calls = 0
    /\ r_in = None /\ r_out = None /\ c_in = None /\ c_out = None

\* sys.exit(status) with nothing catching SystemExit
Exit(status) ==
    /\ pc' = "exited"
    /\ exit_status' = Some(status)

\* Lines 312-318: one iteration of the for loop
ProcessInput ==
    /\ pc = "collect"
    /\ idx <= Len(inputs)
    /\ \E exists \in BOOLEAN, outcome \in Outcomes(idx) :
          LET r == process_input(inputs[idx], exists, [e \in Extractors |-> outcome])
          IN  /\ console' = console \o r.prints
              /\ extracted' = Append(extracted, [input |-> inputs[idx], route |-> r.route,
                                                 result |-> r.result])
              /\ all_content' = CollectContent(all_content, r.result)
    /\ idx' = idx + 1
    /\ UNCHANGED <<pc, inputs, query, output, combined_content, chunks, results,
                   final_result, file, exit_status, calls, chunker_calls,
                   r_in, r_out, c_in, c_out>>

\* Lines 321-326: after the loop, abort when nothing was kept, else combine
CheckAndCombine ==
    /\ pc = "collect"
    /\ idx > Len(inputs)
    /\ IF all_content = <<>>
       THEN /\ console' = Append(console, Msg("Error: No content could be extracted"))
            /\ Exit(1)
            /\ UNCHANGED combined_content
       ELSE /\ combined_content' = Combine(all_content)
            /\ pc' = "decide"
            /\ UNCHANGED <<console, exit_status>>
    /\ UNCHANGED <<inputs, query, output, idx, all_content, chunks, results,
                   final_result, file, extracted, calls, chunker_calls,
                   r_in, r_out, c_in, c_out>>

\* Lines 329-339: the size decision, and the split when the corpus is too large
SizeDecision ==
    /\ pc = "decide"
    /\ IF NeedsChunking(combined_content)
       THEN /\ \E cs \in ChunkLists(combined_content) : chunks' = cs
            /\ chunker_calls' = chunker_calls + 1
            /\ pc' = "map"
       ELSE /\ pc' = "direct"
            /\ UNCHANGED <<chunks, chunker_calls>>
    /\ UNCHANGED <<inputs, query, output, idx, all_content, combined_content, results,
                   final_result, console, file, exit_status, extracted, calls,
                   r_in, r_out, c_in, c_out>>

\* Line 360: the corpus is processed in one request
Direct ==
    /\ pc = "direct"
    /\ \E ok \in BOOLEAN :
          LET r == process_with_llm(combined_content, query, ok, Len(calls) + 1)
          IN  /\ calls' = Append(calls, CallRecord("direct", r))
              /\ IF r.exited
                 THEN /\ console' = Append(console, Msg("Error calling OpenAI API"))
                      /\ Exit(r.status)
                      /\ UNCHANGED final_result
                 ELSE /\ final_result' = Some(r.value)
                      /\ pc' = "emit"
                      /\ UNCHANGED <<console, exit_status>>
    /\ UNCHANGED <<inputs, query, output, idx, all_content, combined_content, chunks,
                   results, file, extracted, chunker_calls, r_in, r_out, c_in, c_out>>

\* Lines 340-344: one iteration of the loop over the chunks
MapChunk ==
    /\ pc = "map"
    /\ Len(results) < Len(chunks)
    /\ \E ok \in BOOLEAN :
          LET r == process_with_llm(chunks[Len(results) + 1], query, ok, Len(calls) + 1)
          IN  /\ calls' = Append(calls, CallRecord("chunk", r))
              /\ IF r.exited
                 THEN /\ console' = Append(console, Msg("Error calling OpenAI API"))
                      /\ Exit(r.status)
                      /\ UNCHANGED results
                 ELSE /\ results' = Append(results, r.value)
                      /\ UNCHANGED <<pc, console, exit_status>>
    /\ UNCHANGED <<inputs, query, output, idx, all_content, combined_content, chunks,
                   final_result, file, extracted, chunker_calls, r_in, r_out, c_in, c_out>>

\* Lines 347-357 after the loop: reduce several results, or take the only one.
\* results[0] of an empty list raises IndexError, which nothing catches.
Reduce ==
    /\ pc = "map"
    /\ Len(results) = Len(chunks)
    /\ IF NeedsReduce(results)
       THEN \E ok \in BOOLEAN :
              LET r == process_with_llm(Join(NL2, results), Some(ReduceInstruction),
                                        ok, Len(calls) + 1)
              IN  /\ calls' = Append(calls, CallRecord("reduce", r))
                  /\ IF r.exited
                     THEN /\ console' = Append(console, Msg("Error calling OpenAI API"))
                          /\ Exit(r.status)
                          /\ UNCHANGED final_result
                     ELSE /\ final_result' = Some(r.value)
                          /\ pc' = "emit"
                          /\ UNCHANGED <<console, exit_status>>
       ELSE IF Len(results) = 1
       THEN /\ final_result' = Some(results[1])
            /\ pc' = "emit"
            /\ UNCHANGED <<console, exit_status, calls>>
       ELSE /\ pc' = "crashed"
            /\ exit_status' = Some(1)
            /\ console' = Append(console, Msg("IndexError: list index out of range"))
            /\ UNCHANGED <<final_result, calls>>
    /\ UNCHANGED <<inputs, query, output, idx, all_content, combined_content, chunks,
                   results, file, extracted, chunker_calls, r_in, r_out, c_in, c_out>>

\* Mutant: the fallback reports the error and loses the result
EmitFallbackLost(result) == <<Msg("Error writing to output file")>>

\* Lines 369-371: what is printed when writing the file raised
EmitFallback(result) == <<Msg("Error writing to output file"), Res(result)>>

\* Lines 374-376: console mode
EmitConsole(result) == <<SepTop, Res(result), SepBottom>>

\* Lines 363-376.  open() truncates the file, so a failure in write() leaves it
\* without the result.
Emit ==
    /\ pc = "emit"
    /\ IF Truthy(output)
       THEN \E w \in WriteOutcomes :
              /\ file' = IF w = "ok" THEN Some(final_result.val)
                         ELSE IF w = "write_fails" THEN Some(<<>>)
                         ELSE file
              /\ console' = console \o (IF w = "ok" THEN <<Msg("Output written")>>
                                        ELSE EmitFallback(final_result.val))
       ELSE /\ console' = console \o EmitConsole(final_result.val)
            /\ UNCHANGED file
    /\ pc' = "done"
    /\ exit_status' = Some(0)
    /\ UNCHANGED <<inputs, query, output, idx, all_content, combined_content, chunks,
                   results, final_result, extracted, calls, chunker_calls,
                   r_in, r_out, c_in, c_out>>

Next ==
    \/ ProcessInput
    \/ CheckAndCombine
    \/ SizeDecision
    \/ Direct
    \/ MapChunk
    \/ Reduce
    \/ Emit

Spec == Init /\ [][Next]_vars

-----------------------------------------------------------------------------
(* Chunker: split_text_into_chunks, lines 240-258.  It builds langchain's      *)
(* RecursiveCharacterTextSplitter(chunk_size, chunk_overlap, length_function = *)
(* len), leaving the defaults separators = ["\n\n", "\n", " ", ""],            *)
(* keep_separator = True and strip_whitespace = True, and returns its          *)
(* split_text(text).  Here a str is a sequence of one-character strings.       *)

Whitespace == {" ", "\n"}

DefaultSeparators == << <<"\n", "\n">>, <<"\n">>, <<" ">>, <<>> >>

\* The 1-based position of the first occurrence of sep in text, 0 when absent
Find(text, sep) ==
    LET hits == {p \in 1..(Len(text) - Len(sep) + 1) : SubSeq(text, p, p + Len(sep) - 1) = sep}
    IN  IF hits = {} THEN 0 ELSE CHOOSE p \in hits : \A q \in hits : p <= q

\* re.split(sep, text) for a literal, non-empty sep: the parts between the
\* non-overlapping occurrences of sep, found left to right
RECURSIVE Parts(_, _)
Parts(text, sep) ==
    LET p == Find(text, sep)
    IN  IF p = 0 THEN <<text>>
        ELSE <<SubSeq(text, 1, p - 1)>> \o Parts(SubSeq(text, p + Len(sep), Len(text)), sep)

\* _split_text_with_regex(text, separator, keep_separator = True): each separator
\* stays at the head of the part that follows it; list(text) for the empty
\* separator; empty splits are dropped
split_text_with_regex(text, sep) ==
    LET parts  == Parts(text, sep)
        splits == IF sep = <<>>
                  THEN [k \in 1..Len(text) |-> <<text[k]>>]
                  ELSE [k \in 1..Len(parts) |-> IF k = 1 THEN parts[1] ELSE sep \o parts[k]]
    IN  SelectSeq(splits, LAMBDA x : x # <<>>)

\* str.strip()
RECURSIVE LStrip(_)
LStrip(t) == IF t # <<>> /\ Head(t) \in Whitespace THEN LStrip(Tail(t)) ELSE t

RECURSIVE RStrip(_)
RStrip(t) == IF t # <<>> /\ t[Len(t)] \in Whitespace THEN RStrip(SubSeq(t, 1, Len(t) - 1)) ELSE t

Strip(t) == RStrip(LStrip(t))

\* "".join(docs)
RECURSIVE Concat(_)
Concat(docs) == IF docs = <<>> THEN <<>> ELSE Head(docs) \o Concat(Tail(docs))

\* _join_docs(docs, ""): the stripped concatenation, as a list of zero or one
\* chunk (None is returned for an empty text, and not appended)
join_docs(docs) ==
    LET text == Strip(Concat(docs))
    IN  IF text = <<>> THEN <<>> ELSE <<text>>

\* The while loop of _merge_splits: pop from the front while the window is larger
\* than the overlap, or too large to take the next split
RECURSIVE PopFront(_, _, _, _, _)
PopFront(current_doc, total, len, size, ov) ==
    IF total > ov \/ (total + len > size /\ total > 0)
    THEN PopFront(Tail(current_doc), total - Len(Head(current_doc)), len, size, ov)
    ELSE [current_doc |-> current_doc, total |-> total]

\* The for loop of _merge_splits(splits, ""), the separator being empty
RECURSIVE MergeLoop(_, _, _, _, _, _)
MergeLoop(splits, current_doc, total, docs, size, ov) ==
    IF splits = <<>> THEN [docs |-> docs, current_doc |-> current_doc]
    ELSE LET d    == Head(splits)
             len  == Len(d)
             over == total + len > size /\ current_doc # <<>>
             docs1 == IF over THEN docs \o join_docs(current_doc) ELSE docs
             win  == IF over THEN PopFront(current_doc, total, len, size, ov)
                     ELSE [current_doc |-> current_doc, total |-> total]
         IN  MergeLoop(Tail(splits), Append(win.current_doc, d), win.total + len,
                       docs1, size, ov)

\* Mutant: the window left when the loop ends is not emitted
merge_splits_no_flush(splits, size, ov) ==
    MergeLoop(splits, <<>>, 0, <<>>, size, ov).docs

\* _merge_splits(splits, ""): the loop, then the last window
merge_splits(splits, size, ov) ==
    LET st == MergeLoop(splits, <<>>, 0, <<>>, size, ov)
    IN  st.docs \o join_docs(st.current_doc)

\* The separator _split_text picks: the first of the list that is empty or occurs
\* in the text
PickSeparator(text, separators) ==
    CHOOSE i \in 1..Len(separators) :
        /\ separators[i] = <<>> \/ Find(text, separators[i]) # 0
        /\ \A j \in 1..(i - 1) : separators[j] # <<>> /\ Find(text, separators[j]) = 0

\* _split_text(text, separators) and its loop over the splits: short splits are
\* collected and merged, a split of chunk_size or more is split again with the
\* remaining separators, or kept whole when none remains
RECURSIVE split_text(_, _, _, _), SplitLoop(_, _, _, _, _, _)
SplitLoop(splits, good_splits, final_chunks, new_separators, size, ov) ==
    IF splits = <<>>
    THEN IF good_splits # <<>> THEN final_chunks \o merge_splits(good_splits, size, ov)
         ELSE final_chunks
    ELSE LET s == Head(splits)
         IN  IF Len(s) < size
             THEN SplitLoop(Tail(splits), Append(good_splits, s), final_chunks,
                            new_separators, size, ov)
             ELSE LET flushed == IF good_splits # <<>>
                                 THEN final_chunks \o merge_splits(good_splits, size, ov)
                                 ELSE final_chunks
                      deeper  == IF new_separators = <<>> THEN <<s>>
                                 ELSE split_text(s, new_separators, size, ov)
                  IN  SplitLoop(Tail(splits), <<>>, flushed \o deeper,
                                new_separators, size, ov)

split_text(text, separators, size, ov) ==
    LET i == PickSeparator(text, separators)
        separator == separators[i]
        new_separators == IF separator = <<>> THEN <<>>
                          ELSE SubSeq(separators, i + 1, Len(separators))
    IN  SplitLoop(split_text_with_regex(text, separator), <<>>, <<>>,
                  new_separators, size, ov)

split_text_into_chunks(text, chunk_size, chunk_overlap) ==
    split_text(text, DefaultSeparators, chunk_size, chunk_overlap)

-----------------------------------------------------------------------------
(* SpecChunker: split_text_into_chunks applied to every short string over a    *)
(* small alphabet, with every chunk_size up to MaxChunkSize and every smaller  *)
(* chunk_overlap.                                                              *)

Alphabet == {"a", "b", " ", "\n"}

Strings == UNION { [1..n -> Alphabet] : n \in 0..MaxTextLen }

ChunkerInit ==
    /\ c_in \in { Some([text |-> t, chunk_size |-> sz, chunk_overlap |-> ov]) :
                    t \in Strings, sz \in 1..MaxChunkSize, ov \in 0..(MaxChunkSize - 1) }
    /\ c_in.val.chunk_overlap < c_in.val.chunk_size
    /\ c_out = None
    /\ r_in = None /\ r_out = None
    /\ pc = "idle" /\ inputs = <<>> /\ query = None /\ output = None /\ idx = 0
    /\ all_content = <<>> /\ combined_content = <<>> /\ chunks = <<>> /\ results = <<>>
    /\ final_result = None /\ console = <<>> /\ file = None /\ exit_status = None
    /\ extracted = <<>> /\ calls = <<>> /\ chunker_calls = 0

ChunkerApply ==
    /\ c_out = None
    /\ c_out' = Some(split_text_into_chunks(c_in.val.text, c_in.val.chunk_size,
                                            c_in.val.chunk_overlap))
    /\ UNCHANGED <<mainVars, r_in, r_out, c_in>>

ChunkerNext == ChunkerApply

SpecChunker == ChunkerInit /\ [][ChunkerNext]_vars

-----------------------------------------------------------------------------
(* Chunker coverage (C9) *)

IsPrefix(a, b) == Len(a) <= Len(b) /\ SubSeq(b, 1, Len(a)) = a

\* cs can be appended to acc, each chunk after dropping some overlap with what is
\* already there (any amount, from none to the whole chunk), to give text exactly
RECURSIVE Rebuilds(_, _, _)
Rebuilds(acc, cs, text) ==
    IF cs = <<>> THEN acc = text
    ELSE LET c == Head(cs)
         IN  \E k \in 0..(IF Len(acc) < Len(c) THEN Len(acc) ELSE Len(c)) :
                /\ SubSeq(acc, Len(acc) - k + 1, Len(acc)) = SubSeq(c, 1, k)
                /\ IsPrefix(acc \o SubSeq(c, k + 1, Len(c)), text)
                /\ Rebuilds(acc \o SubSeq(c, k + 1, Len(c)), Tail(cs), text)

\* The chunks occur in text at non-decreasing positions, the first at or after
\* minStart, and every character from position from on that no chunk contains is
\* whitespace
RECURSIVE CoversUpToWhitespace(_, _, _, _)
CoversUpToWhitespace(cs, text, from, minStart) ==
    IF cs = <<>> THEN \A p \in from..Len(text) : text[p] \in Whitespace
    ELSE LET c == Head(cs)
         IN  \E o \in minStart..(Len(text) - Len(c) + 1) :
                /\ SubSeq(text, o, o + Len(c) - 1) = c
                /\ \A p \in from..(o - 1) : text[p] \in Whitespace
                /\ CoversUpToWhitespace(Tail(cs), text,
                                        IF o + Len(c) > from THEN o + Len(c) ELSE from, o)

\* C9 as stated: the chunks, overlaps removed, give back the input exactly
C9_Original ==
    c_out.some => Rebuilds(<<>>, c_out.val, c_in.val.text)

\* C9 (amended): split_text_into_chunks returns non-empty chunks, each a contiguous
\* piece of the input, at non-decreasing positions, and every character of the
\* input that lies in no chunk is whitespace: the chunks give back the input up to
\* whitespace dropped at chunk boundaries, in order and with nothing added.
C9_ChunkerCoverage ==
    c_out.some =>
        /\ \A k \in 1..Len(c_out.val) : c_out.val[k] # <<>>
        /\ CoversUpToWhitespace(c_out.val, c_in.val.text, 1, 1)

\* A text was split in two chunks and the whitespace between them was dropped
C9_Witness ==
    /\ c_out.some
    /\ c_in.val.text = <<"a", " ", "b">>
    /\ c_in.val.chunk_size = 2 /\ c_in.val.chunk_overlap = 0
    /\ c_out.val = << <<"a">>, <<"b">> >>

\* With a chunk_size of 2 or more every chunk is stripped, and the list of chunks
\* is empty exactly when the text has no character other than whitespace (what
\* ChunkLists assumes of the default chunk_size)
ChunkerEmptyIffBlank ==
    (c_out.some /\ c_in.val.chunk_size >= 2) =>
        /\ (c_out.val = <<>>) = (\A p \in 1..Len(c_in.val.text) : c_in.val.text[p] \in Whitespace)
        /\ \A k \in 1..Len(c_out.val) : Strip(c_out.val[k]) = c_out.val[k]

-----------------------------------------------------------------------------
(* Properties of main() *)

\* The instruction process_with_llm puts before the content for args.query
QueryOrDefault == IF Truthy(query) THEN query.val ELSE DefaultInstruction

\* The corpus was built (it always holds the separator prefix)
Combined == combined_content # <<>>

\* The size decision was taken
Decided == Combined /\ pc \notin {"collect", "decide"}

\* The run ended with the fatal "no content" error: non-zero status, no request,
\* nothing written or printed as a result
NoContentAbort ==
    /\ pc = "exited" /\ exit_status = Some(1)
    /\ ~Combined /\ calls = <<>> /\ chunker_calls = 0
    /\ file = None /\ final_result = None
    /\ console # <<>> /\ console[Len(console)] = Msg("Error: No content could be extracted")
    /\ \A k \in 1..Len(console) : console[k].kind = "msg"

\* With a corpus of at most small characters chunking is skipped and one direct
\* request is made; with a longer one the chunker is called
SizeDecisionAt(small) ==
    Decided =>
        IF StrLen(combined_content) <= small
        THEN /\ chunker_calls = 0
             /\ Len(calls) = (IF pc = "direct" THEN 0 ELSE 1)
             /\ \A k \in 1..Len(calls) :
                   /\ calls[k].kind = "direct"
                   /\ calls[k].instruction = QueryOrDefault
                   /\ calls[k].content = combined_content
                   /\ calls[k].ok => final_result = Some(OutText(k))
             /\ pc \in {"emit", "done"} => final_result = Some(OutText(1))
        ELSE /\ chunker_calls = 1
             /\ pc # "direct"
             /\ \A k \in 1..Len(calls) : calls[k].kind \in {"chunk", "reduce"}

\* C1 as stated: chunking is skipped exactly below 4000 characters
C1_Original == SizeDecisionAt(SizeLimit - 1)

\* C1 (amended): chunking is skipped exactly when the corpus has at most 4000
\* characters.  Then one completion request is made, on the whole corpus and with
\* the user's query (the default when there is none), its result is the final
\* result (a failed request ends the run), and neither the chunker nor a reduce request is used.  A corpus of
\* more than 4000 characters is split by the chunker and takes the chunk path.
C1_SizeDecision == SizeDecisionAt(SizeLimit)

\* A corpus of exactly 4000 characters was processed by one direct request
C1_Witness ==
    /\ pc = "done" /\ StrLen(combined_content) = SizeLimit
    /\ Len(calls) = 1 /\ calls[1].kind = "direct" /\ chunker_calls = 0

\* C2: on the chunk path with n chunks the requests are, in this order, one per
\* chunk (the i-th on the i-th chunk, with the user's query or the default) and,
\* when n > 1, one reduce request with the fixed instruction on the n results
\* joined in order, whose answer is the final result; with n = 1 there is no
\* reduce request and the final result is the single chunk result.  A request is
\* made only after all earlier ones succeeded.
C2_ChunkMapReduce ==
    (Decided /\ chunker_calls = 1) =>
        LET n == Len(chunks)
        IN  /\ Len(results) <= n
            /\ Len(calls) <= (IF n > 1 THEN n + 1 ELSE n)
            /\ Len(calls) >= Len(results)
            /\ \A k \in 1..Len(calls) :
                  /\ k < Len(calls) => calls[k].ok
                  /\ IF k <= n
                     THEN /\ calls[k].kind = "chunk"
                          /\ calls[k].content = chunks[k]
                          /\ calls[k].instruction = QueryOrDefault
                     ELSE /\ calls[k].kind = "reduce"
                          /\ calls[k].instruction = ReduceInstruction
                          /\ calls[k].content = Join(NL2, [j \in 1..n |-> OutText(j)])
                          /\ results = [j \in 1..n |-> OutText(j)]
            /\ \A j \in 1..Len(results) : results[j] = OutText(j) /\ calls[j].ok
            /\ pc \in {"emit", "done"} =>
                  /\ Len(results) = n
                  /\ Len(calls) = (IF n > 1 THEN n + 1 ELSE n)
                  /\ final_result = Some(OutText(Len(calls)))
                  /\ calls[Len(calls)].ok

\* Three chunks were mapped and reduced
C2_Witness ==
    /\ pc = "done" /\ Len(chunks) = 3 /\ Len(calls) = 4
    /\ calls[4].kind = "reduce" /\ final_result = Some(OutText(4))

\* The extractor failed: process_input returned None
Failed(result) == ~result.some

\* The extraction gave nothing to keep: None or the empty string
Falsy(result) == ~Truthy(result)

\* Every input is routed in the order given, whatever the earlier ones gave, and
\* the run aborts with "no content" exactly when every input is unusable: failed
\* (onlyFailures), or failed or empty
CollectAt(onlyFailures) ==
    /\ Len(extracted) = (IF pc = "collect" THEN idx - 1 ELSE Len(inputs))
    /\ \A j \in 1..Len(extracted) : extracted[j].input = inputs[j]
    /\ pc # "collect" =>
          /\ NoContentAbort = (\A j \in 1..Len(extracted) :
                                  IF onlyFailures THEN Failed(extracted[j].result)
                                  ELSE Falsy(extracted[j].result))
          /\ Combined = ~NoContentAbort

\* C3 as stated: the run aborts exactly when every input failed extraction
C3_Original == CollectAt(TRUE)

\* C3 (amended): every input is routed and extracted in the order given, an input
\* that fails is skipped and the later ones are still extracted, and the run
\* aborts with the fatal "no content extracted" error (status 1, no completion
\* request, no result written or printed) exactly when no input yielded a
\* non-empty text, that is when every input failed or returned the empty string;
\* otherwise the run goes on to Combine.
C3_Collect == CollectAt(FALSE)

\* The run aborted although an extractor had returned a text, the empty one
C3_Witness ==
    /\ NoContentAbort
    /\ \E j \in 1..Len(extracted) : extracted[j].result = Some(<<>>)

\* C4: once a completion request has failed the process has exited with status 1,
\* the failed request is the last one made, and no result was written to the file
\* or printed.
C4_BackendFailureFatal ==
    \A k \in 1..Len(calls) :
        ~calls[k].ok =>
            /\ k = Len(calls)
            /\ pc = "exited" /\ exit_status = Some(1)
            /\ file = None
            /\ \A m \in 1..Len(console) : console[m].kind = "msg"

\* The second of three chunk requests failed
C4_Witness ==
    /\ pc = "exited" /\ Len(chunks) = 3
    /\ Len(calls) = 2 /\ calls[1].ok /\ ~calls[2].ok

\* Writing the output file was attempted and failed
WriteFailed ==
    /\ pc = "done" /\ Truthy(output)
    /\ \A k \in 1..Len(console) : console[k] # Msg("Output written")

\* The last n things printed
LastPrinted(n) == SubSeq(console, Len(console) - n + 1, Len(console))

\* C5 as stated: after a failed write the result is printed between the two
\* separator lines
C5_Original ==
    WriteFailed =>
        /\ Len(console) >= 3
        /\ LastPrinted(3) = <<SepTop, Res(final_result.val), SepBottom>>

\* C5 (amended): when an output file is given and writing it fails, the run does
\* not abort (it ends with status 0) and the result is printed to the console
\* after the error message, without the separator lines of console mode; every
\* run that reaches Emit leaves the result in the file or on the console.
C5_OutputFallback ==
    pc = "done" =>
        /\ exit_status = Some(0)
        /\ WriteFailed =>
              /\ Len(console) >= 2
              /\ LastPrinted(2) = <<Msg("Error writing to output file"), Res(final_result.val)>>
              /\ \A k \in 1..Len(console) : console[k].kind # "sep"
        /\ \/ file = Some(final_result.val)
           \/ \E k \in 1..Len(console) : console[k] = Res(final_result.val)

\* open() failed on the output path and the result was printed instead
C5_Witness ==
    /\ WriteFailed /\ file = None
    /\ console[Len(console)] = Res(final_result.val)

\* The positions of the corpus that hold a document
DocPositions == {p \in 1..Len(combined_content) : combined_content[p].kind = "doc"}

\* C6: with two or more documents the " DOCUMENT SEPARATOR " banner stands between
\* every two consecutive documents of the corpus.
C6_BannerBetweenDocuments ==
    Combined =>
        \A p, q \in DocPositions :
            p < q => \E b \in (p + 1)..(q - 1) :
                        combined_content[b].kind = " DOCUMENT SEPARATOR "

\* The inputs whose extraction gave a text, in the order of the inputs
RECURSIVE UsableFrom(_)
UsableFrom(j) ==
    IF j > Len(extracted) THEN <<>>
    ELSE (IF Truthy(extracted[j].result) THEN <<j>> ELSE <<>>) \o UsableFrom(j + 1)

C10_FinalResultDefined ==
    /\ pc # "crashed"
    /\ (Decided /\ chunker_calls = 1) =>
          /\ Len(chunks) >= 1
          /\ StrLen(combined_content) > SizeLimit
          /\ ~IsBlank(combined_content)
    /\ pc \in {"emit", "done"} =>
          /\ final_result.some
          /\ \E k \in 1..Len(calls) : calls[k].ok /\ final_result.val = OutText(k)
    /\ (Combined /\ \A k \in 1..Len(calls) : calls[k].ok) =>
          /\ pc \in {"decide", "direct", "map", "emit", "done"}
          /\ pc # "done" => ENABLED Next

\* A corpus of blank documents took the chunk path and gave one chunk
C10_Witness ==
    /\ pc = "done" /\ chunker_calls = 1 /\ Len(chunks) = 1
    /\ \A k \in 1..Len(all_content) : IsBlank(all_content[k])
    /\ final_result = Some(results[1])

=============================================================================
